---- MODULE Spec2Model ----
(***************************************************************************)
(* A model of tools/convert_to_rdf/convert_to_rdf.py: the MIrA XML to      *)
(* Wikidata-aligned RDF conversion.                                        *)
(*                                                                         *)
(* Text is modelled as a sequence of one-character strings.  Python's None *)
(* and the empty string are both falsy and the program only ever tests     *)
(* truthiness of its optional texts, so both are modelled as <<>>.         *)
(***************************************************************************)
EXTENDS Integers, Sequences, FiniteSets, TLC

\* ------------------------------------------------------------------------
\* Bounds of the model
\* ------------------------------------------------------------------------
MaxYearLen == 8
MaxQidLen == 6
MaxIdLen == 4
MaxTitleLen == 4

\* ------------------------------------------------------------------------
\* Characters and the character classes of Python's re module
\* ------------------------------------------------------------------------
None == <<>>

UpperSeq == <<"A","B","C","D","E","F","G","H","I","J","K","L","M",
              "N","O","P","Q","R","S","T","U","V","W","X","Y","Z">>
LowerSeq == <<"a","b","c","d","e","f","g","h","i","j","k","l","m",
              "n","o","p","q","r","s","t","u","v","w","x","y","z">>
DigitSeq == <<"0","1","2","3","4","5","6","7","8","9">>

Range(f) == { f[i] : i \in DOMAIN f }

IsUpper(c) == c \in Range(UpperSeq)
IsLower(c) == c \in Range(LowerSeq)
\* \d
IsDigit(c) == c \in Range(DigitSeq)
\* \w
IsWord(c) == IsUpper(c) \/ IsLower(c) \/ IsDigit(c) \/ c = "_"
\* \s
IsSpace(c) == c \in {" ", "\t", "\n", "\r"}

\* str.lower() on one character
ToLower(c) ==
    IF IsUpper(c)
    THEN LowerSeq[CHOOSE i \in DOMAIN UpperSeq : UpperSeq[i] = c]
    ELSE c

\* str.upper() on one character
ToUpper(c) ==
    IF IsLower(c)
    THEN UpperSeq[CHOOSE i \in DOMAIN LowerSeq : LowerSeq[i] = c]
    ELSE c

Lower(s) == [i \in 1..Len(s) |-> ToLower(s[i])]

Min(S) == CHOOSE x \in S : \A y \in S : x <= y
Max(S) == CHOOSE x \in S : \A y \in S : x >= y

\* All texts over the alphabet A of length at most n.
Texts(A, n) == UNION { [1..k -> A] : k \in 0..n }

\* s with the character at position i removed / replaced / c inserted after i
RemoveAt(s, i) == SubSeq(s, 1, i - 1) \o SubSeq(s, i + 1, Len(s))
ReplaceAt(s, i, c) == [s EXCEPT ![i] = c]
InsertAfter(s, i, c) == SubSeq(s, 1, i) \o <<c>> \o SubSeq(s, i + 1, Len(s))

\* ------------------------------------------------------------------------
\* Regular-expression machinery
\* ------------------------------------------------------------------------

\* \b at the gap between positions i and i+1 (i in 0..Len(s)): exactly one
\* of the two neighbours is a word character; outside the text counts as not.
WordBoundary(s, i) ==
    LET left == i >= 1 /\ IsWord(s[i])
        right == i + 1 <= Len(s) /\ IsWord(s[i + 1])
    IN left # right

\* str.strip(): drop leading and trailing whitespace.
Strip(s) ==
    LET keep == { i \in 1..Len(s) : ~IsSpace(s[i]) }
    IN IF keep = {} THEN <<>> ELSE SubSeq(s, Min(keep), Max(keep))

\* End of the greedy match of  [class]+  that starts at i (mask[i] holds).
GreedyEnd(mask, i) ==
    Max({ j \in i..Len(mask) : \A k \in i..j : mask[k] })

\* re.sub(r"[class]+", rep, s) scanning from position i: leftmost match,
\* greedy, non-overlapping.  mask[k] says whether s[k] is in the class.
RECURSIVE ReSubRunsFrom(_, _, _, _)
ReSubRunsFrom(s, mask, rep, i) ==
    IF i > Len(s) THEN <<>>
    ELSE IF mask[i]
         THEN rep \o ReSubRunsFrom(s, mask, rep, GreedyEnd(mask, i) + 1)
         ELSE <<s[i]>> \o ReSubRunsFrom(s, mask, rep, i + 1)

ReSubRuns(s, mask, rep) == ReSubRunsFrom(s, mask, rep, 1)

\* re.sub(r"[class]", rep, s): every single character of the class.
RECURSIVE ReSubEachFrom(_, _, _, _)
ReSubEachFrom(s, mask, rep, i) ==
    IF i > Len(s) THEN <<>>
    ELSE (IF mask[i] THEN rep ELSE <<s[i]>>) \o ReSubEachFrom(s, mask, rep, i + 1)

ReSubEach(s, mask, rep) == ReSubEachFrom(s, mask, rep, 1)

\* ------------------------------------------------------------------------
\* Utility functions
\* ------------------------------------------------------------------------

\* norm: strip, then collapse every whitespace run to one blank.
norm(s) ==
    LET t == Strip(s)
    IN ReSubRuns(t, [i \in 1..Len(t) |-> IsSpace(t[i])], <<" ">>)

\* The class  [^A-Za-z0-9._-]  of safe_id.
IsUnsafe(c) == ~(IsUpper(c) \/ IsLower(c) \/ IsDigit(c) \/ c \in {".", "_", "-"})

Unknown == <<"u","n","k","n","o","w","n">>

\* A plausible slip: the pattern without "+", one underscore per character.
safe_id_each(s) ==
    LET t == IF s = <<>> THEN Unknown ELSE s
    IN ReSubEach(t, [i \in 1..Len(t) |-> IsUnsafe(t[i])], <<"_">>)

safe_id(s) ==
    LET t == IF s = <<>> THEN Unknown ELSE s
    IN ReSubRuns(t, [i \in 1..Len(t) |-> IsUnsafe(t[i])], <<"_">>)

\* A subject in the local namespace: MIRA + kind + "/" + safe_id(key).
local_uri(kind, key) == [ns |-> "mira", kind |-> kind, id |-> safe_id(key)]

\* A subject in the external namespace: WD[qid].
WD(qid) == [ns |-> "wd", kind |-> "entity", id |-> qid]

\* Ends j of a match of  Q\d+\b  whose Q is at i.
QidEnds(s, i) ==
    { j \in (i + 1)..Len(s) :
        /\ \A k \in (i + 1)..j : IsDigit(s[k])
        /\ WordBoundary(s, j) }

\* Starts of a match of  \bQ\d+\b .
QidStarts(s) ==
    { i \in 1..Len(s) :
        /\ WordBoundary(s, i - 1)
        /\ s[i] = "Q"
        /\ QidEnds(s, i) # {} }

\* A plausible slip: the last match instead of the first.
extract_qid_last(text) ==
    IF text = <<>> THEN None
    ELSE IF QidStarts(text) = {} THEN None
    ELSE LET i == Max(QidStarts(text))
         IN SubSeq(text, i, Max(QidEnds(text, i)))

\* re.search(r"\bQ\d+\b", text): leftmost start, greedy digits.
extract_qid(text) ==
    IF text = <<>> THEN None
    ELSE IF QidStarts(text) = {} THEN None
    ELSE LET i == Min(QidStarts(text))
         IN SubSeq(text, i, Max(QidEnds(text, i)))

\* The class of apostrophes removed by normalize_title_key: the ASCII
\* apostrophe, "grave" (the backtick, U+0060) and "rsquo" (U+2019).
Apostrophes == {"'", "grave", "rsquo"}

\* A plausible slip: apostrophes are not removed first, so they are replaced
\* by a blank like any other punctuation.
normalize_title_key_noapos(s) ==
    LET a == Lower(norm(s))
        c == ReSubEach(a, [i \in 1..Len(a) |->
                 ~(IsLower(a[i]) \/ IsDigit(a[i]) \/ IsSpace(a[i]))], <<" ">>)
    IN Strip(ReSubRuns(c, [i \in 1..Len(c) |-> IsSpace(c[i])], <<" ">>))

normalize_title_key(s) ==
    LET a == Lower(norm(s))
        b == ReSubEach(a, [i \in 1..Len(a) |-> a[i] \in Apostrophes], <<>>)
        c == ReSubEach(b, [i \in 1..Len(b) |->
                 ~(IsLower(b[i]) \/ IsDigit(b[i]) \/ IsSpace(b[i]))], <<" ">>)
    IN Strip(ReSubRuns(c, [i \in 1..Len(c) |-> IsSpace(c[i])], <<" ">>))

\* Ends j of a match of  \b(\d{n,})\b  (atLeast) or  \b(\d{n})\b  at i.
DigitEnds(s, i, n, atLeast) ==
    { j \in (i + n - 1)..(IF atLeast THEN Len(s) ELSE i + n - 1) :
        /\ j <= Len(s)
        /\ \A k \in i..j : IsDigit(s[k])
        /\ WordBoundary(s, j) }

DigitStarts(s, n, atLeast) ==
    { i \in 1..Len(s) :
        /\ WordBoundary(s, i - 1)
        /\ DigitEnds(s, i, n, atLeast) # {} }

\* str.zfill(4)
RECURSIVE zfill4(_)
zfill4(s) == IF Len(s) >= 4 THEN s ELSE zfill4(<<"0">> \o s)

\* A plausible slip: the whole run of four or more digits is kept.
extract_gYear_whole(text) ==
    IF text = <<>> THEN None
    ELSE IF DigitStarts(text, 4, TRUE) # {}
    THEN LET i == Min(DigitStarts(text, 4, TRUE))
             j == Max(DigitEnds(text, i, 4, TRUE))
         IN SubSeq(text, i, j)
    ELSE IF DigitStarts(text, 3, FALSE) # {}
    THEN LET i == Min(DigitStarts(text, 3, FALSE))
         IN zfill4(SubSeq(text, i, i + 2))
    ELSE None

\* A plausible slip: the 3-digit search tried before the 4+ digit search.
extract_gYear_3first(text) ==
    IF text = <<>> THEN None
    ELSE IF DigitStarts(text, 3, FALSE) # {}
    THEN LET i == Min(DigitStarts(text, 3, FALSE))
         IN zfill4(SubSeq(text, i, i + 2))
    ELSE IF DigitStarts(text, 4, TRUE) # {}
    THEN LET i == Min(DigitStarts(text, 4, TRUE))
             j == Max(DigitEnds(text, i, 4, TRUE))
         IN SubSeq(SubSeq(text, i, j), 1, 4)
    ELSE None

extract_gYear(text) ==
    IF text = <<>> THEN None
    ELSE IF DigitStarts(text, 4, TRUE) # {}
    THEN LET i == Min(DigitStarts(text, 4, TRUE))
             j == Max(DigitEnds(text, i, 4, TRUE))
         IN SubSeq(SubSeq(text, i, j), 1, 4)
    ELSE IF DigitStarts(text, 3, FALSE) # {}
    THEN LET i == Min(DigitStarts(text, 3, FALSE))
         IN zfill4(SubSeq(text, i, i + 2))
    ELSE None

\* Literal(value) and Literal(value, datatype=...)
Literal(value, datatype) == [ns |-> "literal", kind |-> datatype, id |-> value]

\* P571: the objects of the inception statement made for the date text
\* year_raw (none or one).
InceptionObjects(year_raw) ==
    LET gyear == extract_gYear(year_raw)
    IN IF gyear # None THEN {Literal(gyear, "xsd:gYear")} ELSE {}

\* ------------------------------------------------------------------------
\* State
\* ------------------------------------------------------------------------
VARIABLES
    fn,      \* the utility function that has been called, "" before the call
    arg,     \* the text it is called on
    arg2,    \* a second title, obtained from arg by edits
    ret,     \* what the function returned for arg
    ret2,    \* what it returned for arg2, or what its caller makes of ret
    glued,   \* whether an edit removed punctuation between two words
    input,   \* the five XML files: people, places, texts, libraries, mss
    pc,      \* the position of main
    people_qid_by_id, people_label_by_id,
    place_qid_by_id, place_names_by_id,
    text_qid_by_id, text_title_by_id, text_qid_by_norm_title,
    lib_name_by_id, lib_qid_by_id,
    g,       \* the rdflib Graph: a set of triples
    emitted, \* history: every g.add so far, with the record it was made for
    msIdx,   \* the number of manuscripts the loop has processed
    out,     \* the written Turtle file, as <<g>>; <<>> while not written
    rerun,   \* whether this is the second run on the same input
    prevOut  \* the file the first run wrote

fnVars == <<fn, arg, arg2, ret, ret2, glued>>

tableVars == <<people_qid_by_id, people_label_by_id,
               place_qid_by_id, place_names_by_id,
               text_qid_by_id, text_title_by_id, text_qid_by_norm_title,
               lib_name_by_id, lib_qid_by_id>>

mainVars == <<input, pc, tableVars, g, emitted, msIdx, out, rerun, prevOut>>

\* The network-metrics scripts (network_metrics_model1.py, _model2.py).
VARIABLES
    script,   \* the script that runs: "model1" or "model2"; "" when none does
    csv,      \* its input tables: the node rows and the edge rows
    mpc,      \* the position of the script
    G,        \* the DiGraph: node -> type, in insertion order, and the edges
    pagerank, \* the PageRank column: node -> value; <<>> while not computed
    eig_cent, \* the EigenvectorCentrality column, likewise
    diverged, \* history: the algorithms that failed to converge
    files     \* the metric tables written

metricsVars == <<script, csv, mpc, G, pagerank, eig_cent, diverged, files>>

vars == <<fnVars, mainVars, metricsVars>>

NoTables == [nodes |-> <<>>, edges |-> <<>>]

\* A script before it has read its input.
MetricsAtStart ==
    /\ mpc = "read"
    /\ G = NoTables
    /\ pagerank = <<>>
    /\ eig_cent = <<>>
    /\ diverged = {}
    /\ files = {}

\* No network-metrics script is run.
MetricsNotRun ==
    /\ script = ""
    /\ csv = NoTables
    /\ MetricsAtStart

NoInput == [people |-> <<>>, places |-> <<>>, texts |-> <<>>,
            libraries |-> <<>>, mss |-> <<>>]

\* main before its first load, with nothing in memory.
MainAtStart ==
    /\ pc = "load_people"
    /\ people_qid_by_id = <<>> /\ people_label_by_id = <<>>
    /\ place_qid_by_id = <<>> /\ place_names_by_id = <<>>
    /\ text_qid_by_id = <<>> /\ text_title_by_id = <<>>
    /\ text_qid_by_norm_title = <<>>
    /\ lib_name_by_id = <<>> /\ lib_qid_by_id = <<>>
    /\ g = {}
    /\ emitted = {}
    /\ msIdx = 0
    /\ out = <<>>

\* main is not run: only a utility function is called.
MainNotRun ==
    /\ input = NoInput
    /\ MainAtStart
    /\ rerun = FALSE
    /\ prevOut = <<>>

\* No utility function is called on its own: main runs.
FnNotCalled ==
    /\ fn = "main"
    /\ arg = <<>> /\ arg2 = <<>>
    /\ ret = <<>> /\ ret2 = <<>>
    /\ glued = FALSE

\* ------------------------------------------------------------------------
\* The utility functions called on every text of a bounded alphabet
\* ------------------------------------------------------------------------
YearChars == {"1", "2", "a", " "}
QidChars == {"Q", "1", "2", "a", " "}
IdChars == {"a", ".", "_", " ", "/"}
TitleChars == {"a", "A", " ", "'", "."}

InitFn(A, n) ==
    /\ fn = ""
    /\ arg \in Texts(A, n)
    /\ arg2 = arg
    /\ ret = None
    /\ ret2 = None
    /\ glued = FALSE
    /\ MainNotRun
    /\ MetricsNotRun

Call_extract_gYear ==
    /\ fn = ""
    /\ fn' = "extract_gYear"
    /\ ret' = extract_gYear(arg)
    /\ ret2' = InceptionObjects(arg)
    /\ UNCHANGED <<arg, arg2, glued, mainVars, metricsVars>>

Call_extract_qid ==
    /\ fn = ""
    /\ fn' = "extract_qid"
    /\ ret' = extract_qid(arg)
    /\ ret2' = ret'
    /\ UNCHANGED <<arg, arg2, glued, mainVars, metricsVars>>

Call_safe_id ==
    /\ fn = ""
    /\ fn' = "safe_id"
    /\ ret' = safe_id(arg)
    /\ ret2' = local_uri("manuscript", arg).id
    /\ UNCHANGED <<arg, arg2, glued, mainVars, metricsVars>>

InitYear == InitFn(YearChars, MaxYearLen)
SpecYear == InitYear /\ [][Call_extract_gYear]_vars

InitQid == InitFn(QidChars, MaxQidLen)
SpecQid == InitQid /\ [][Call_extract_qid]_vars

InitSafeId == InitFn(IdChars, MaxIdLen)
SpecSafeId == InitSafeId /\ [][Call_safe_id]_vars

\* ------------------------------------------------------------------------
\* Title normalisation: a title and a variant of it, both normalised
\* ------------------------------------------------------------------------
IsPunct(c) == ~(IsWord(c) /\ c # "_") /\ ~IsSpace(c) /\ c \notin Apostrophes

\* The punctuation at i touches whitespace, other punctuation or an end of
\* the title, so removing it joins no two words.
Separated(s, i) ==
    IF i = 1 \/ i = Len(s) THEN TRUE
    ELSE \E k \in {i - 1, i + 1} : IsSpace(s[k]) \/ IsPunct(s[k])

\* A blank at i is redundant: it leads, trails or touches another blank.
RedundantBlank(s, i) ==
    IF i = 1 \/ i = Len(s) THEN TRUE
    ELSE \E k \in {i - 1, i + 1} : IsSpace(s[k])

\* A blank inserted after position i would be redundant.
RedundantGap(s, i) ==
    IF i = 0 \/ i = Len(s) THEN TRUE
    ELSE \E k \in {i, i + 1} : IsSpace(s[k])

Call_normalize_title_key ==
    /\ fn = ""
    /\ fn' = "normalize_title_key"
    /\ ret' = normalize_title_key(arg)
    /\ ret2' = normalize_title_key(arg2)
    /\ UNCHANGED <<arg, arg2, glued, mainVars, metricsVars>>

Renormalize(t) ==
    /\ fn = "normalize_title_key"
    /\ arg2' = t
    /\ ret2' = normalize_title_key(t)
    /\ UNCHANGED <<fn, arg, ret, mainVars, metricsVars>>

\* The variant changes the case of one letter.
ChangeCase ==
    \E i \in 1..Len(arg2) :
        /\ IsUpper(arg2[i]) \/ IsLower(arg2[i])
        /\ Renormalize(ReplaceAt(arg2, i,
               IF IsUpper(arg2[i]) THEN ToLower(arg2[i]) ELSE ToUpper(arg2[i])))
        /\ UNCHANGED glued

\* The variant loses an apostrophe.
DropApostrophe ==
    \E i \in 1..Len(arg2) :
        /\ arg2[i] \in Apostrophes
        /\ Renormalize(RemoveAt(arg2, i))
        /\ UNCHANGED glued

\* The variant loses a punctuation character.
DropPunct ==
    \E i \in 1..Len(arg2) :
        /\ IsPunct(arg2[i])
        /\ Renormalize(RemoveAt(arg2, i))
        /\ glued' = (glued \/ ~Separated(arg2, i))

\* The variant has a blank where the title has a punctuation character.
PunctToSpace ==
    \E i \in 1..Len(arg2) :
        /\ IsPunct(arg2[i])
        /\ Renormalize(ReplaceAt(arg2, i, " "))
        /\ UNCHANGED glued

\* The variant loses a leading or trailing blank, or one of several blanks.
DropSpace ==
    \E i \in 1..Len(arg2) :
        /\ IsSpace(arg2[i])
        /\ RedundantBlank(arg2, i)
        /\ Renormalize(RemoveAt(arg2, i))
        /\ UNCHANGED glued

\* The variant gains a leading or trailing blank, or one more inner blank.
AddSpace ==
    \E i \in 0..Len(arg2) :
        /\ Len(arg2) < MaxTitleLen
        /\ RedundantGap(arg2, i)
        /\ Renormalize(InsertAfter(arg2, i, " "))
        /\ UNCHANGED glued

InitTitle == InitFn(TitleChars, MaxTitleLen)

NextTitle ==
    \/ Call_normalize_title_key
    \/ ChangeCase
    \/ DropApostrophe
    \/ DropPunct
    \/ PunctToSpace
    \/ DropSpace
    \/ AddSpace

SpecTitle == InitTitle /\ [][NextTitle]_vars

\* ------------------------------------------------------------------------
\* Claims about the utility functions
\* ------------------------------------------------------------------------

\* Starts of the maximal digit runs of s, and the end of the run at i.
RunStarts(s) ==
    { i \in 1..Len(s) : IsDigit(s[i]) /\ (IF i = 1 THEN TRUE ELSE ~IsDigit(s[i - 1])) }
RunEnd(s, i) == Max({ j \in i..Len(s) : \A k \in i..j : IsDigit(s[k]) })
RunLen(s, i) == RunEnd(s, i) - i + 1

\* The text s[i..j] is a whole word: no letter, digit or underscore touches it.
WholeWord(s, i, j) ==
    /\ IF i = 1 THEN TRUE ELSE ~IsWord(s[i - 1])
    /\ IF j = Len(s) THEN TRUE ELSE ~IsWord(s[j + 1])

\* The year the policy yields when R are the starts of the runs that count.
YearOfRuns(s, R) ==
    LET long == { i \in R : RunLen(s, i) >= 4 }
        three == { i \in R : RunLen(s, i) = 3 }
    IN IF long # {} THEN SubSeq(s, Min(long), Min(long) + 3)
       ELSE IF three # {} THEN <<"0">> \o SubSeq(s, Min(three), Min(three) + 2)
       ELSE None

\* C4 as stated: the year is the first 4 digits of the first run of 4 or
\* more digits if there is one, else the first run of exactly 3 digits padded
\* with a zero, else absent, whatever surrounds the runs.
C4_AnyRun ==
    fn = "extract_gYear" => ret = YearOfRuns(arg, RunStarts(arg))

\* C4 amended: the same policy over the digit runs that stand as whole words
\* (not touched by a letter or an underscore); other runs are ignored.
C4_YearExtraction ==
    fn = "extract_gYear" =>
        ret = YearOfRuns(arg, { i \in RunStarts(arg) : WholeWord(arg, i, RunEnd(arg, i)) })

\* A 3-digit run precedes a 4-digit run and the 4-digit run wins.
C4_Witness ==
    /\ fn = "extract_gYear"
    /\ arg = <<"1", "2", "1", " ", "2", "1", "2", "1">>
    /\ ret = <<"2", "1", "2", "1">>

\* Occurrences of Q followed by a digit, and the Q with its whole digit run.
QOccurrences(s) == { i \in 1..(Len(s) - 1) : s[i] = "Q" /\ IsDigit(s[i + 1]) }
QidAt(s, i) == SubSeq(s, i, RunEnd(s, i + 1))
FirstQid(s, O) == IF O = {} THEN None ELSE QidAt(s, Min(O))

\* C5 as stated: the result is the first occurrence anywhere of Q followed by
\* digits, and is unresolved exactly when there is no such occurrence.
C5_Anywhere ==
    fn = "extract_qid" => ret = FirstQid(arg, QOccurrences(arg))

\* C5 amended: the result is the first occurrence of Q followed by digits
\* that stands as a whole word, and is unresolved exactly when the text is
\* absent or has no such whole-word occurrence.
C5_QidExtraction ==
    fn = "extract_qid" =>
        ret = FirstQid(arg, { i \in QOccurrences(arg) :
                                WholeWord(arg, i, RunEnd(arg, i + 1)) })

\* An occurrence glued to a letter is skipped and a later whole word is found.
C5_Witness ==
    /\ fn = "extract_qid"
    /\ arg = <<"a", "Q", "1", " ", "Q", "2">>
    /\ ret = <<"Q", "2">>

\* The text s from position i on, with every allowed character kept and the
\* first character of every run of other characters turned into "_".
RECURSIVE RunsCollapsedFrom(_, _)
RunsCollapsedFrom(s, i) ==
    IF i > Len(s) THEN <<>>
    ELSE (IF ~IsUnsafe(s[i]) THEN <<s[i]>>
          ELSE IF i = 1 THEN <<"_">>
          ELSE IF IsUnsafe(s[i - 1]) THEN <<>> ELSE <<"_">>)
         \o RunsCollapsedFrom(s, i + 1)

\* C8: the sanitized identifier holds only ASCII alphanumerics, dot,
\* underscore and hyphen; every maximal run of other characters has become
\* exactly one underscore and the allowed characters are kept in order; it is
\* never empty (the empty input yields the placeholder), and neither is the
\* path segment of a local subject.
C8_Sanitization ==
    fn = "safe_id" =>
        /\ \A i \in 1..Len(ret) : ~IsUnsafe(ret[i])
        /\ ret = (IF arg = <<>> THEN Unknown ELSE RunsCollapsedFrom(arg, 1))
        /\ ret # <<>>
        /\ ret2 # <<>>

\* A run of two disallowed characters has become one underscore.
C8_Witness ==
    /\ fn = "safe_id"
    /\ arg = <<"a", " ", "/", "a">>
    /\ ret = <<"a", "_", "a">>

\* C9 as stated: a title and any variant that differs from it only in letter
\* case, apostrophes, punctuation or amount of whitespace have the same key.
C9_AnyPunctuation ==
    fn = "normalize_title_key" => ret2 = ret

\* C9 amended: they have the same key provided no removed punctuation
\* character stood directly between two words (such a character separates
\* the words like a blank, so removing it joins them).
C9_TitleInsensitive ==
    (fn = "normalize_title_key" /\ ~glued) => ret2 = ret

\* A variant without the capital, the apostrophe and the final dot.
C9_Witness ==
    /\ fn = "normalize_title_key"
    /\ ~glued
    /\ arg = <<"A", "'", "a", ".">>
    /\ arg2 = <<"a", "a">>
    /\ ret = <<"a", "a">>
    /\ ret2 = ret

\* ------------------------------------------------------------------------
\* Python dicts: insertion-ordered sequences of entries [k, v]
\* ------------------------------------------------------------------------
DictKeys(d) == { d[i].k : i \in DOMAIN d }
DictHas(d, key) == key \in DictKeys(d)

\* d.get(key): None when the key is missing.
DictGet(d, key) ==
    IF DictHas(d, key)
    THEN d[CHOOSE i \in DOMAIN d : d[i].k = key].v
    ELSE None

\* d[key] = val: overwrite in place, or insert at the end.
DictPut(d, key, val) ==
    IF DictHas(d, key)
    THEN [i \in DOMAIN d |-> IF d[i].k = key THEN [k |-> key, v |-> val] ELSE d[i]]
    ELSE Append(d, [k |-> key, v |-> val])

\* The members of a set of numbers in increasing order (document order).
RECURSIVE Sorted(_)
Sorted(S) == IF S = {} THEN <<>> ELSE <<Min(S)>> \o Sorted(S \ {Min(S)})

\* " ".join(filter(None, [a, b]))
JoinNames(a, b) ==
    IF a # <<>> /\ b # <<>> THEN a \o <<" ">> \o b
    ELSE IF a # <<>> THEN a
    ELSE b

\* ------------------------------------------------------------------------
\* Load authority data
\* ------------------------------------------------------------------------

\* load_people: the loop body folded over the person elements from i on.
RECURSIVE load_people_from(_, _, _)
load_people_from(persons, i, acc) ==
    IF i > Len(persons) THEN acc
    ELSE LET p == persons[i]
             pid == p.id
             label == norm(JoinNames(p.firstNames, p.surname))
             qid == extract_qid(p.xref)
         IN load_people_from(persons, i + 1,
                [qid_by_id |-> DictPut(acc.qid_by_id, pid, qid),
                 label_by_id |-> IF label # <<>>
                                 THEN DictPut(acc.label_by_id, pid, label)
                                 ELSE acc.label_by_id])

load_people(persons) ==
    load_people_from(persons, 1, [qid_by_id |-> <<>>, label_by_id |-> <<>>])

\* [norm(n.text) for n in el.findall("name") if n.text and norm(n.text)]
PlaceNames(el) ==
    LET kept == SelectSeq(el.names, LAMBDA n : norm(n) # <<>>)
    IN [i \in 1..Len(kept) |-> norm(kept[i])]

\* el.findall("place") (el = 0: root.findall("./place")), in document order.
ChildPlaces(places, el) ==
    Sorted({ i \in 1..Len(places) : places[i].parent = el })

\* A plausible slip: only the element itself is registered, no recursion.
RECURSIVE walk_flat(_, _, _)
walk_flat(places, todo, acc) ==
    IF todo = <<>> THEN acc
    ELSE LET el == places[Head(todo)]
             acc1 == IF el.id # <<>>
                     THEN [qid_by_id |-> DictPut(acc.qid_by_id, el.id, extract_qid(el.xref)),
                           names_by_id |-> DictPut(acc.names_by_id, el.id, PlaceNames(el))]
                     ELSE acc
         IN walk_flat(places, Tail(todo), acc1)

\* load_places.walk over the elements todo, in order: each element is
\* registered when it has an id, then its children are walked.
RECURSIVE walk(_, _, _)
walk(places, todo, acc) ==
    IF todo = <<>> THEN acc
    ELSE LET el == places[Head(todo)]
             pid == el.id
             acc1 == IF pid # <<>>
                     THEN [qid_by_id |-> DictPut(acc.qid_by_id, pid, extract_qid(el.xref)),
                           names_by_id |-> DictPut(acc.names_by_id, pid, PlaceNames(el))]
                     ELSE acc
             acc2 == walk(places, ChildPlaces(places, Head(todo)), acc1)
         IN walk(places, Tail(todo), acc2)

load_places(places) ==
    walk(places, ChildPlaces(places, 0), [qid_by_id |-> <<>>, names_by_id |-> <<>>])

\* A plausible slip: a title is indexed whether or not its QID resolved.
RECURSIVE load_texts_indexall(_, _, _)
load_texts_indexall(texts, i, acc) ==
    IF i > Len(texts) THEN acc
    ELSE LET t == texts[i]
             title == norm(t.title)
             qid == extract_qid(t.xref)
         IN load_texts_indexall(texts, i + 1,
                [qid_by_id |-> DictPut(acc.qid_by_id, t.id, qid),
                 title_by_id |-> IF title # <<>>
                                 THEN DictPut(acc.title_by_id, t.id, title)
                                 ELSE acc.title_by_id,
                 qid_by_norm_title |->
                     IF title # <<>>
                     THEN DictPut(acc.qid_by_norm_title, normalize_title_key(title), qid)
                     ELSE acc.qid_by_norm_title])

\* load_texts: the loop body folded over the text elements from i on.
RECURSIVE load_texts_from(_, _, _)
load_texts_from(texts, i, acc) ==
    IF i > Len(texts) THEN acc
    ELSE LET t == texts[i]
             tid == t.id
             title == norm(t.title)
             qid == extract_qid(t.xref)
         IN load_texts_from(texts, i + 1,
                [qid_by_id |-> DictPut(acc.qid_by_id, tid, qid),
                 title_by_id |-> IF title # <<>>
                                 THEN DictPut(acc.title_by_id, tid, title)
                                 ELSE acc.title_by_id,
                 qid_by_norm_title |->
                     IF title # <<>> /\ qid # None
                     THEN DictPut(acc.qid_by_norm_title, normalize_title_key(title), qid)
                     ELSE acc.qid_by_norm_title])

load_texts(texts) ==
    load_texts_from(texts, 1,
        [qid_by_id |-> <<>>, title_by_id |-> <<>>, qid_by_norm_title |-> <<>>])

\* load_libraries: the loop body folded over the library elements from i on.
RECURSIVE load_libraries_from(_, _, _)
load_libraries_from(libs, i, acc) ==
    IF i > Len(libs) THEN acc
    ELSE LET lib == libs[i]
             lid == lib.id
             name == IF norm(lib.name) # <<>> THEN norm(lib.name) ELSE lid
             qid == extract_qid(lib.xref)
         IN load_libraries_from(libs, i + 1,
                IF lid # <<>>
                THEN [name_by_id |-> DictPut(acc.name_by_id, lid, name),
                      qid_by_id |-> DictPut(acc.qid_by_id, lid, qid)]
                ELSE acc)

load_libraries(libs) ==
    load_libraries_from(libs, 1, [name_by_id |-> <<>>, qid_by_id |-> <<>>])

\* ------------------------------------------------------------------------
\* Vocabulary
\* ------------------------------------------------------------------------
Q_MANUSCRIPT == <<"Q", "8", "7", "1", "6", "7">>
Q_HUMAN == <<"Q", "5">>
Q_LIBRARY == <<"Q", "7", "0", "7", "5">>
Q_ORG == <<"Q", "4", "3", "2", "2", "9">>
Q_WORK == <<"Q", "7", "7", "2", "5", "6", "3", "4">>
Q_PLACE == <<"Q", "6", "1", "8", "1", "2", "3">>

\* uuid.uuid4().hex[:8]: any of the 8-digit hexadecimal tokens; two of them.
Tokens == { [i \in 1..8 |-> "0"], [i \in 1..8 |-> "f"] }

\* The subject-resolution rule: WD[qid] if qid else local_uri(kind, key).
Subject(qid, kind, key) == IF qid # None THEN WD(qid) ELSE local_uri(kind, key)

Logged(kind, ref, triples) == { [kind |-> kind, ref |-> ref, t |-> t] : t \in triples }

\* ------------------------------------------------------------------------
\* Authority entities
\* ------------------------------------------------------------------------

\* People: the body of the loop for one item of people_qid_by_id.
PersonTriples(pid, qid, label) ==
    LET subj == Subject(qid, "person", pid)
    IN {<<subj, "rdf:type", WD(Q_HUMAN)>>}
       \cup (IF label # None
             THEN {<<subj, "rdfs:label", Literal(label, "plain")>>,
                   <<subj, "skos:prefLabel", Literal(label, "plain")>>}
             ELSE {})

\* A plausible slip: the random token is used whenever the id is missing.
PlaceKeyRandom(pid, names, tok) ==
    IF pid # <<>> THEN pid ELSE <<"p", "l", "a", "c", "e", "_">> \o tok

\* key = pid or (names[0] if names else f"place_{uuid.uuid4().hex[:8]}")
PlaceKey(pid, names, tok) ==
    IF pid # <<>> THEN pid
    ELSE IF names # <<>> THEN names[1]
    ELSE <<"p", "l", "a", "c", "e", "_">> \o tok

\* emit_place without its recursion: the statements for one place element.
PlaceTriples(el, qid_by_id, tok) ==
    LET pid == el.id
        qid == DictGet(qid_by_id, pid)
        names == PlaceNames(el)
        subj == Subject(qid, "place", PlaceKey(pid, names, tok))
    IN {<<subj, "rdf:type", WD(Q_PLACE)>>}
       \cup (IF names # <<>>
             THEN {<<subj, "rdfs:label", Literal(names[1], "plain")>>,
                   <<subj, "skos:prefLabel", Literal(names[1], "plain")>>}
                  \cup { <<subj, "skos:altLabel", Literal(names[i], "plain")>> :
                           i \in 2..Len(names) }
             ELSE {})

\* A plausible slip: the children are emitted only under a resolved parent.
RECURSIVE emit_place_resolved(_, _, _, _)
emit_place_resolved(places, i, qid_by_id, toks) ==
    Logged("place", i, PlaceTriples(places[i], qid_by_id, toks[i]))
    \cup (IF DictGet(qid_by_id, places[i].id) # None
          THEN UNION { emit_place_resolved(places, ch, qid_by_id, toks) :
                         ch \in Range(ChildPlaces(places, i)) }
          ELSE {})

\* emit_place(el): the statements for the element, then for its children.
\* toks[i] is the token uuid4 yields if it is called for element i.
RECURSIVE emit_place(_, _, _, _)
emit_place(places, i, qid_by_id, toks) ==
    Logged("place", i, PlaceTriples(places[i], qid_by_id, toks[i]))
    \cup UNION { emit_place(places, ch, qid_by_id, toks) :
                   ch \in Range(ChildPlaces(places, i)) }

\* Works/texts: the body of the loop for one item of text_qid_by_id.
TextTriples(tid, qid, title) ==
    LET subj == Subject(qid, "work", tid)
    IN {<<subj, "rdf:type", WD(Q_WORK)>>}
       \cup (IF title # None
             THEN {<<subj, "rdfs:label", Literal(title, "plain")>>,
                   <<subj, "skos:prefLabel", Literal(title, "plain")>>}
             ELSE {})

\* Libraries: the body of the loop for one item of lib_name_by_id.
LibraryTriples(lid, name, qid) ==
    LET subj == Subject(qid, "library", lid)
    IN {<<subj, "rdf:type", WD(Q_LIBRARY)>>,
        <<subj, "rdf:type", WD(Q_ORG)>>,
        <<subj, "rdfs:label", Literal(name, "plain")>>,
        <<subj, "skos:prefLabel", Literal(name, "plain")>>}

\* ------------------------------------------------------------------------
\* Manuscripts
\* ------------------------------------------------------------------------

\* mid = ms.get("id") or f"ms_{uuid.uuid4().hex[:8]}"
ManuscriptId(ms, tok) == IF ms.id # <<>> THEN ms.id ELSE <<"m", "s", "_">> \o tok

\* A plausible slip: the local library URI is always used.
CollectionObjectsLocal(qid_by_id, lib_id) ==
    IF lib_id = <<>> THEN {} ELSE {local_uri("library", lib_id)}

\* P195: the objects of the collection statement (none or one).
CollectionObjects(qid_by_id, lib_id) ==
    IF lib_id = <<>> THEN {}
    ELSE IF DictGet(qid_by_id, lib_id) # None
    THEN {WD(DictGet(qid_by_id, lib_id))}
    ELSE {local_uri("library", lib_id)}

\* P1071: the objects of the location-of-creation statement (none or one).
\* A missing place element and a place element without id both give <<>>.
OriginObjects(qid_by_id, pid) ==
    IF pid # <<>> /\ DictGet(qid_by_id, pid) # None
    THEN {WD(DictGet(qid_by_id, pid))}
    ELSE IF pid # <<>> THEN {local_uri("place", pid)}
    ELSE {}

\* A plausible slip: the shelf mark alone takes precedence.
ManuscriptLabelShelfFirst(shelf, lib_name, mid) ==
    IF shelf # <<>> THEN shelf
    ELSE <<"M", "I", "R", "A", " ", "m", "a", "n", "u", "s", "c", "r", "i", "p", "t", " ">>
         \o mid

\* "emdash" stands for the character U+2014.
ManuscriptLabel(shelf, lib_name, mid) ==
    IF shelf # <<>> /\ lib_name # None
    THEN lib_name \o <<" ", "emdash", " ">> \o shelf
    ELSE IF shelf # <<>> THEN shelf
    ELSE <<"M", "I", "R", "A", " ", "m", "a", "n", "u", "s", "c", "r", "i", "p", "t", " ">>
         \o mid

\* The end of the greedy match of \d+ that starts at i.
DigitsEnd(s, i) == Max({ j \in i..Len(s) : \A k \in i..j : IsDigit(s[k]) })

\* str(int(digits)): the decimal numeral without leading zeros.
RECURSIVE IntLexical(_)
IntLexical(digits) ==
    IF Len(digits) > 1 /\ Head(digits) = "0" THEN IntLexical(Tail(digits)) ELSE digits

\* re.search(r"\d+", s), then int(m.group(0)): a set with the number, or {}.
FirstInteger(s) ==
    LET starts == { i \in 1..Len(s) : IsDigit(s[i]) }
    IN IF starts = {} THEN {}
       ELSE {IntLexical(SubSeq(s, Min(starts), DigitsEnd(s, Min(starts))))}

\* re.search(r"\d+(?:\.\d+)?", s): a set with the matched text, or {}.
FirstDecimal(s) ==
    LET starts == { i \in 1..Len(s) : IsDigit(s[i]) }
        i == Min(starts)
        j == DigitsEnd(s, i)
        fraction == IF j + 2 <= Len(s) THEN s[j + 1] = "." /\ IsDigit(s[j + 2]) ELSE FALSE
    IN IF starts = {} THEN {}
       ELSE IF fraction THEN {SubSeq(s, i, DigitsEnd(s, j + 2))}
       ELSE {SubSeq(s, i, j)}

\* ms.findtext("./history/term_post") or ms.findtext("./history/term_ante")
YearRaw(ms) == IF ms.term_post # <<>> THEN ms.term_post ELSE ms.term_ante

\* P1574: the works the content-item titles of ms match.
ExemplarObjects(ms, qid_by_norm_title) ==
    { WD(DictGet(qid_by_norm_title, normalize_title_key(norm(ms.titles[i])))) :
        i \in { k \in 1..Len(ms.titles) :
                  /\ norm(ms.titles[k]) # <<>>
                  /\ DictGet(qid_by_norm_title,
                             normalize_title_key(norm(ms.titles[k]))) # None } }

\* The body of the manuscript loop: every statement added for one manuscript.
ManuscriptTriples(ms, tok, lib_qids, lib_names, place_qids, title_index) ==
    LET mid == ManuscriptId(ms, tok)
        subj == local_uri("manuscript", mid)
        shelf == norm(ms.shelfmark)
        lib_id == ms.libraryID
        lib_name == IF lib_id # <<>> THEN DictGet(lib_names, lib_id) ELSE None
        label == ManuscriptLabel(shelf, lib_name, mid)
        h_raw == norm(ms.page_h)
        w_raw == norm(ms.page_w)
    IN {<<subj, "wdt:P31", WD(Q_MANUSCRIPT)>>}
       \cup (IF shelf # <<>> THEN {<<subj, "wdt:P217", Literal(shelf, "plain")>>} ELSE {})
       \cup { <<subj, "wdt:P195", o>> : o \in CollectionObjects(lib_qids, lib_id) }
       \cup {<<subj, "rdfs:label", Literal(label, "plain")>>,
             <<subj, "skos:prefLabel", Literal(label, "plain")>>}
       \cup { <<subj, "wdt:P571", o>> : o \in InceptionObjects(YearRaw(ms)) }
       \cup { <<subj, "wdt:P1071", o>> : o \in OriginObjects(place_qids, ms.origin_place) }
       \cup { <<subj, "wdt:P1104", Literal(n, "xsd:integer")>> :
                n \in FirstInteger(norm(ms.folios)) }
       \cup { <<subj, "wdt:P2048", Literal(d, "xsd:decimal")>> : d \in FirstDecimal(h_raw) }
       \cup { <<subj, "wdt:P2049", Literal(d, "xsd:decimal")>> : d \in FirstDecimal(w_raw) }
       \cup (IF ms.href # <<>> THEN {<<subj, "wdt:P953", Literal(ms.href, "xsd:anyURI")>>} ELSE {})
       \cup { <<subj, "wdt:P1574", o>> : o \in ExemplarObjects(ms, title_index) }

\* ------------------------------------------------------------------------
\* main, step by step
\* ------------------------------------------------------------------------

\* etree.parse raises on a missing or malformed file; nothing catches it.
ParseError ==
    /\ pc \in {"load_people", "load_places", "load_texts", "load_libraries", "parse_mss"}
    /\ pc' = "aborted"
    /\ UNCHANGED <<input, tableVars, g, emitted, msIdx, out, rerun, prevOut, fnVars, metricsVars>>

LoadPeople ==
    /\ pc = "load_people"
    /\ people_qid_by_id' = load_people(input.people).qid_by_id
    /\ people_label_by_id' = load_people(input.people).label_by_id
    /\ pc' = "load_places"
    /\ UNCHANGED <<input, place_qid_by_id, place_names_by_id, text_qid_by_id,
                   text_title_by_id, text_qid_by_norm_title, lib_name_by_id,
                   lib_qid_by_id, g, emitted, msIdx, out, rerun, prevOut, fnVars, metricsVars>>

LoadPlaces ==
    /\ pc = "load_places"
    /\ place_qid_by_id' = load_places(input.places).qid_by_id
    /\ place_names_by_id' = load_places(input.places).names_by_id
    /\ pc' = "load_texts"
    /\ UNCHANGED <<input, people_qid_by_id, people_label_by_id, text_qid_by_id,
                   text_title_by_id, text_qid_by_norm_title, lib_name_by_id,
                   lib_qid_by_id, g, emitted, msIdx, out, rerun, prevOut, fnVars, metricsVars>>

LoadTexts ==
    /\ pc = "load_texts"
    /\ text_qid_by_id' = load_texts(input.texts).qid_by_id
    /\ text_title_by_id' = load_texts(input.texts).title_by_id
    /\ text_qid_by_norm_title' = load_texts(input.texts).qid_by_norm_title
    /\ pc' = "load_libraries"
    /\ UNCHANGED <<input, people_qid_by_id, people_label_by_id, place_qid_by_id,
                   place_names_by_id, lib_name_by_id, lib_qid_by_id,
                   g, emitted, msIdx, out, rerun, prevOut, fnVars, metricsVars>>

LoadLibraries ==
    /\ pc = "load_libraries"
    /\ lib_name_by_id' = load_libraries(input.libraries).name_by_id
    /\ lib_qid_by_id' = load_libraries(input.libraries).qid_by_id
    /\ pc' = "emit_people"
    /\ UNCHANGED <<input, people_qid_by_id, people_label_by_id, place_qid_by_id,
                   place_names_by_id, text_qid_by_id, text_title_by_id,
                   text_qid_by_norm_title, g, emitted, msIdx, out, rerun, prevOut, fnVars, metricsVars>>

\* g.add for every logged statement.
Add(log, next) ==
    /\ emitted' = emitted \cup log
    /\ g' = g \cup { e.t : e \in log }
    /\ pc' = next
    /\ UNCHANGED <<input, tableVars, out, rerun, prevOut, fnVars, metricsVars>>

EmitPeople ==
    /\ pc = "emit_people"
    /\ Add(UNION { Logged("person", people_qid_by_id[i].k,
                       PersonTriples(people_qid_by_id[i].k, people_qid_by_id[i].v,
                                     DictGet(people_label_by_id, people_qid_by_id[i].k))) :
                     i \in DOMAIN people_qid_by_id },
           "emit_places")
    /\ UNCHANGED msIdx

\* The place elements for which uuid4 is called: no id and no name.
Nameless(places) ==
    { i \in 1..Len(places) : places[i].id = <<>> /\ PlaceNames(places[i]) = <<>> }

EmitPlaces ==
    /\ pc = "emit_places"
    /\ \E toks \in [1..Len(input.places) -> Tokens] :
         Add(UNION { emit_place(input.places, p, place_qid_by_id, toks) :
                       p \in Range(ChildPlaces(input.places, 0)) },
             "emit_texts")
    /\ UNCHANGED msIdx

EmitTexts ==
    /\ pc = "emit_texts"
    /\ Add(UNION { Logged("text", text_qid_by_id[i].k,
                       TextTriples(text_qid_by_id[i].k, text_qid_by_id[i].v,
                                   DictGet(text_title_by_id, text_qid_by_id[i].k))) :
                     i \in DOMAIN text_qid_by_id },
           "emit_libraries")
    /\ UNCHANGED msIdx

EmitLibraries ==
    /\ pc = "emit_libraries"
    /\ Add(UNION { Logged("library", lib_name_by_id[i].k,
                       LibraryTriples(lib_name_by_id[i].k, lib_name_by_id[i].v,
                                      DictGet(lib_qid_by_id, lib_name_by_id[i].k))) :
                     i \in DOMAIN lib_name_by_id },
           "parse_mss")
    /\ UNCHANGED msIdx

ParseManuscripts ==
    /\ pc = "parse_mss"
    /\ pc' = "manuscripts"
    /\ UNCHANGED <<input, tableVars, g, emitted, msIdx, out, rerun, prevOut, fnVars, metricsVars>>

\* One iteration of the manuscript loop.
EmitManuscript ==
    /\ pc = "manuscripts"
    /\ msIdx < Len(input.mss)
    /\ \E tok \in (IF input.mss[msIdx + 1].id = <<>> THEN Tokens ELSE {<<>>}) :
         Add(Logged("manuscript", msIdx + 1,
                 ManuscriptTriples(input.mss[msIdx + 1], tok, lib_qid_by_id,
                                   lib_name_by_id, place_qid_by_id,
                                   text_qid_by_norm_title)),
             "manuscripts")
    /\ msIdx' = msIdx + 1

\* A plausible slip: the serialization indented into the manuscript loop, so
\* that the file is written after the authority entities and again after
\* every manuscript.
SerializeInLoop ==
    /\ pc = "manuscripts"
    /\ out # <<g>>
    /\ out' = <<g>>
    /\ pc' = IF msIdx = Len(input.mss) THEN "done" ELSE "manuscripts"
    /\ UNCHANGED <<input, tableVars, g, emitted, msIdx, rerun, prevOut, fnVars, metricsVars>>

\* g.serialize(destination=args.out, format="turtle")
Serialize ==
    /\ pc = "manuscripts"
    /\ msIdx = Len(input.mss)
    /\ out' = <<g>>
    /\ pc' = "done"
    /\ UNCHANGED <<input, tableVars, g, emitted, msIdx, rerun, prevOut, fnVars, metricsVars>>

\* The conversion is started again on the unchanged input.
RunAgain ==
    /\ pc = "done"
    /\ ~rerun
    /\ rerun' = TRUE
    /\ prevOut' = out
    /\ pc' = "load_people"
    /\ people_qid_by_id' = <<>> /\ people_label_by_id' = <<>>
    /\ place_qid_by_id' = <<>> /\ place_names_by_id' = <<>>
    /\ text_qid_by_id' = <<>> /\ text_title_by_id' = <<>>
    /\ text_qid_by_norm_title' = <<>>
    /\ lib_name_by_id' = <<>> /\ lib_qid_by_id' = <<>>
    /\ g' = {}
    /\ emitted' = {}
    /\ msIdx' = 0
    /\ out' = <<>>
    /\ UNCHANGED <<input, fnVars, metricsVars>>

Next ==
    \/ ParseError
    \/ LoadPeople
    \/ LoadPlaces
    \/ LoadTexts
    \/ LoadLibraries
    \/ EmitPeople
    \/ EmitPlaces
    \/ EmitTexts
    \/ EmitLibraries
    \/ ParseManuscripts
    \/ EmitManuscript
    \/ Serialize

NextTwice == Next \/ RunAgain

\* ------------------------------------------------------------------------
\* The inputs: XML files of bounded size over small sets of field values
\* ------------------------------------------------------------------------
MaxRecords == 2
MaxPlaces == 2
MaxMss == 2

SeqsUpTo(S, n) == UNION { [1..k -> S] : k \in 0..n }

PersonElements ==
    { [id |-> i, firstNames |-> n[1], surname |-> n[2], xref |-> x] :
        i \in {<<>>, <<"p", "1">>},
        n \in {<<<<>>, <<>>>>, <<<<"A", " ">>, <<"b">>>>},
        x \in {<<>>, <<"Q", "7">>, <<"Q", "7", "x">>} }

TextElements ==
    { [id |-> i, title |-> t, xref |-> x] :
        i \in {<<>>, <<"t", "1">>},
        t \in {<<>>, <<"A", " ", "b">>},
        x \in {<<>>, <<"Q", "4">>, <<"Q", "5">>} }

LibraryElements ==
    { [id |-> i, name |-> n, xref |-> x] :
        i \in {<<>>, <<"L", " ", "1">>},
        n \in {<<>>, <<"N">>},
        x \in {<<>>, <<"Q", "3">>} }

PlaceContents ==
    { [id |-> i, names |-> n, xref |-> x] :
        i \in {<<>>, <<"a">>, <<"b">>},
        n \in {<<>>, <<<<"N">>, <<" ">>, <<"M">>>>},
        x \in {<<>>, <<"Q", "2">>} }

\* Whether element a is element j or one of its ancestors under parents sh.
RECURSIVE OnPathToRoot(_, _, _)
OnPathToRoot(sh, a, j) ==
    IF a = j THEN TRUE
    ELSE IF sh[j] = 0 THEN FALSE
    ELSE OnPathToRoot(sh, a, sh[j])

\* The parent of every element (0: top level) of a forest of k elements
\* listed in document order.
TreeShapes(k) ==
    { sh \in [1..k -> 0..(k - 1)] :
        \A i \in 1..k :
            IF i = 1 THEN sh[i] = 0
            ELSE sh[i] = 0 \/ OnPathToRoot(sh, sh[i], i - 1) }

PlaceFiles ==
    UNION { { [i \in 1..k |-> [id |-> c[i].id, names |-> c[i].names,
                               xref |-> c[i].xref, parent |-> sh[i]]] :
                c \in [1..k -> PlaceContents], sh \in TreeShapes(k) } :
            k \in 0..MaxPlaces }

\* A manuscript with an id and nothing else.
PlainManuscript ==
    [id |-> <<"m", "1">>, shelfmark |-> <<>>, libraryID |-> <<>>,
     term_post |-> <<>>, term_ante |-> <<>>, origin_place |-> <<>>,
     folios |-> <<>>, page_h |-> <<>>, page_w |-> <<>>, href |-> <<>>,
     titles |-> <<>>]

\* Manuscripts that differ in their id only: none, or ids that differ in a
\* character safe_id replaces.
ManuscriptsById ==
    { [PlainManuscript EXCEPT !.id = i] : i \in {<<>>, <<"m", " ">>, <<"m", "/">>} }

ManuscriptsByPlace ==
    { [PlainManuscript EXCEPT !.origin_place = p] : p \in {<<"a">>, <<"z">>, <<" ">>} }

ManuscriptsByLibrary ==
    { [PlainManuscript EXCEPT !.libraryID = l, !.shelfmark = s] :
        l \in {<<>>, <<"L", " ", "1">>, <<"z">>, <<" ">>},
        s \in {<<>>, <<" ", "S", " ">>} }

ManuscriptsByTitles ==
    { [PlainManuscript EXCEPT !.titles = t] :
        t \in { <<<<"a", " ", " ", "B">>>>,
                <<<<"a", "b">>, <<"A", ".", "b">>>>,
                <<<<" ">>, <<"z">>>> } }

ManuscriptsByData ==
    { [PlainManuscript EXCEPT !.term_post = y[1], !.term_ante = y[2],
                              !.folios = f, !.page_h = h, !.page_w = w, !.href = u] :
        y \in { <<<<>>, <<>>>>,
                <<<<"8", "4", "5">>, <<"1", "2", "0", "0">>>>,
                <<<<>>, <<"c", "1", "2", "0", "0", " ", "1", "2", "5", "0", "1">>>>,
                <<<<"9", "t", "h">>, <<"1", "2", "0", "0">>>> },
        f \in {<<>>, <<"f", "0", "1", "2">>, <<"x">>},
        h \in {<<>>, <<"2", "1", ".", "5", "c">>, <<"x">>},
        w \in {<<>>, <<"1", "4", ".">>, <<"x">>},
        u \in {<<>>, <<"u">>, <<" ">>} }

\* The inputs: each family is rich in one kind of file.
Inputs ==
    { [NoInput EXCEPT !.people = f] : f \in SeqsUpTo(PersonElements, MaxRecords) }
    \cup { [NoInput EXCEPT !.places = f, !.mss = m] :
             f \in PlaceFiles, m \in SeqsUpTo(ManuscriptsByPlace, 1) }
    \cup { [NoInput EXCEPT !.libraries = f, !.mss = <<m>>] :
             f \in SeqsUpTo(LibraryElements, MaxRecords), m \in ManuscriptsByLibrary }
    \cup { [NoInput EXCEPT !.texts = f, !.mss = <<m>>] :
             f \in SeqsUpTo(TextElements, MaxRecords), m \in ManuscriptsByTitles }
    \cup { [NoInput EXCEPT !.mss = f] : f \in SeqsUpTo(ManuscriptsById, MaxMss) }
    \cup { [NoInput EXCEPT !.mss = <<m>>] : m \in ManuscriptsByData }

Init ==
    /\ input \in Inputs
    /\ MainAtStart
    /\ rerun = FALSE
    /\ prevOut = <<>>
    /\ FnNotCalled
    /\ MetricsNotRun

Spec == Init /\ [][Next]_vars

SpecTwice == Init /\ [][NextTwice]_vars

\* ------------------------------------------------------------------------
\* Claims about the conversion
\* ------------------------------------------------------------------------
Steps == <<"load_people", "load_places", "load_texts", "load_libraries",
           "emit_people", "emit_places", "emit_texts", "emit_libraries",
           "parse_mss", "manuscripts", "done">>

\* main has completed the step named p (and has not aborted).
Past(p) ==
    /\ pc # "aborted"
    /\ \E i, j \in DOMAIN Steps : Steps[i] = p /\ Steps[j] = pc /\ i < j

\* The statements added for record ref of the given kind.
EmittedFor(kind, ref) == { e.t : e \in { x \in emitted : x.kind = kind /\ x.ref = ref } }

\* The external identifier the loader resolved for the record a logged
\* statement was made for: for a place element, what walk extracted from its
\* cross-reference; for the other kinds, the entry of the loader's table.
ResolvedFor(e) ==
    IF e.kind = "place" THEN extract_qid(input.places[e.ref].xref)
    ELSE IF e.kind = "person" THEN DictGet(people_qid_by_id, e.ref)
    ELSE IF e.kind = "text" THEN DictGet(text_qid_by_id, e.ref)
    ELSE IF e.kind = "library" THEN DictGet(lib_qid_by_id, e.ref)
    ELSE None

\* C1: every statement emitted for an authority record whose external
\* identifier the loader resolved has that identifier, in the external
\* namespace, as its subject, never a locally-minted subject.
C1_ExternalSubject ==
    \A e \in emitted :
        (e.kind # "manuscript" /\ ResolvedFor(e) # None) => e.t[1] = WD(ResolvedFor(e))

\* The objects of the statements with property p added for manuscript m.
ObjectsOf(m, p) == { t[3] : t \in { x \in EmittedFor("manuscript", m) : x[2] = p } }

\* The subjects under which the library / the places with local id were emitted.
LibrarySubjects(id) == { t[1] : t \in EmittedFor("library", id) }
PlaceSubjects(id) ==
    { e.t[1] : e \in { x \in emitted : x.kind = "place" /\ input.places[x.ref].id = id } }

AllManuscriptsHaveIds == \A m \in 1..Len(input.mss) : input.mss[m].id # <<>>

\* C3 as stated: two runs on the same input write the same set of triples,
\* provided every manuscript carries a local identifier.
C3_ManuscriptIdsSuffice ==
    (rerun /\ pc = "done" /\ AllManuscriptsHaveIds) => out = prevOut

\* C3 amended: ... provided every manuscript carries a local identifier and
\* every place carries a local identifier or at least one non-blank name.
C3_Idempotent ==
    (rerun /\ pc = "done" /\ AllManuscriptsHaveIds /\ Nameless(input.places) = {})
        => out = prevOut

\* Both runs are done on an input with a place that has a name but no id.
C3_Witness ==
    /\ rerun /\ pc = "done" /\ AllManuscriptsHaveIds
    /\ Nameless(input.places) = {}
    /\ \E i \in 1..Len(input.places) : input.places[i].id = <<>>
    /\ input.mss # <<>>
    /\ out = prevOut
    /\ out[1] # {}

\* The number of entries of dict d under the key.
Entries(d, key) == Cardinality({ i \in DOMAIN d : d[i].k = key })

\* C6 as stated: after place loading every node of every place tree appears
\* exactly once in the flattened lookup table.
C6_EveryNode ==
    Past("load_places") =>
        \A i \in 1..Len(input.places) :
            /\ Entries(place_qid_by_id, input.places[i].id) = 1
            /\ Entries(place_names_by_id, input.places[i].id) = 1

\* C6 amended: after place loading every node, at every depth, that has a
\* local identifier appears exactly once in the flattened lookup table, and
\* nothing else does (a node without local identifier is not registered).
C6_EveryIdentifiedNode ==
    Past("load_places") =>
        /\ \A i \in 1..Len(input.places) :
              input.places[i].id # <<>> =>
                  /\ Entries(place_qid_by_id, input.places[i].id) = 1
                  /\ Entries(place_names_by_id, input.places[i].id) = 1
        /\ DictKeys(place_qid_by_id) =
               { input.places[i].id : i \in 1..Len(input.places) } \ {<<>>}
        /\ DictKeys(place_names_by_id) = DictKeys(place_qid_by_id)

\* A root and its child, with different ids, are both in the table.
C6_Witness ==
    /\ Past("load_places")
    /\ Len(input.places) = 2
    /\ input.places[2].parent = 1
    /\ input.places[1].id = <<"a">>
    /\ input.places[2].id = <<"b">>
    /\ DictKeys(place_qid_by_id) = {<<"a">>, <<"b">>}
    /\ Len(place_qid_by_id) = 2

\* Element i lies below an element that has no local identifier or no
\* resolvable external identifier.
BelowUnresolved(i) ==
    \E a \in 1..Len(input.places) :
        /\ a # i
        /\ OnPathToRoot([k \in 1..Len(input.places) |-> input.places[k].parent], a, i)
        /\ \/ input.places[a].id = <<>>
           \/ extract_qid(input.places[a].xref) = None

\* C7: a place without local identifier or without resolvable external
\* identifier never suppresses its descendants: each descendant that has a
\* local identifier is registered by the loader, and each descendant gets its
\* own geographic-place type statement during authority emission.
C7_DescendantsKept ==
    \A i \in 1..Len(input.places) :
        BelowUnresolved(i) =>
            /\ (Past("load_places") /\ input.places[i].id # <<>>) =>
                   /\ DictHas(place_qid_by_id, input.places[i].id)
                   /\ DictHas(place_names_by_id, input.places[i].id)
            /\ Past("emit_places") =>
                   \E t \in EmittedFor("place", i) :
                       t[2] = "rdf:type" /\ t[3] = WD(Q_PLACE) /\ t \in g

\* The child of a place with neither id nor external identifier is
\* registered and typed.
C7_Witness ==
    /\ Past("emit_places")
    /\ Len(input.places) = 2
    /\ input.places[2].parent = 1
    /\ input.places[1].id = <<>>
    /\ input.places[1].xref = <<>>
    /\ input.places[2].id = <<"a">>
    /\ DictHas(place_qid_by_id, <<"a">>)
    /\ \E t \in EmittedFor("place", 2) : t[2] = "rdf:type"

\* The keys, with their external ids, of the text records that have both a
\* non-empty title and a resolved external identifier.
IndexableTexts ==
    { <<normalize_title_key(input.texts[i].title), extract_qid(input.texts[i].xref)>> :
        i \in { k \in 1..Len(input.texts) :
                  /\ norm(input.texts[k].title) # <<>>
                  /\ extract_qid(input.texts[k].xref) # None } }

\* C10: the title index holds a key only for text records with a non-empty
\* title and a resolved external identifier, and the exemplar-of-work
\* statements made for a manuscript point exactly at the external ids that
\* the index gives for the keys of its non-empty content-item titles.
C10_TitleIndex ==
    /\ Past("load_texts") =>
          /\ \A i \in DOMAIN text_qid_by_norm_title :
                <<text_qid_by_norm_title[i].k, text_qid_by_norm_title[i].v>>
                    \in IndexableTexts
          /\ \A kq \in IndexableTexts : DictHas(text_qid_by_norm_title, kq[1])
    /\ \A m \in 1..msIdx :
          ObjectsOf(m, "wdt:P1574") =
              { [ns |-> "wd", kind |-> "entity",
                 id |-> DictGet(text_qid_by_norm_title, normalize_title_key(ti))] :
                  ti \in { x \in Range(input.mss[m].titles) :
                             /\ norm(x) # <<>>
                             /\ DictHas(text_qid_by_norm_title, normalize_title_key(x)) } }

\* Of two titles of a manuscript one matches an indexed work and one not.
C10_Witness ==
    /\ pc = "done"
    /\ Len(input.mss) = 1
    /\ input.mss[1].titles = <<<<"a", "b">>, <<"A", ".", "b">>>>
    /\ DictGet(text_qid_by_norm_title, <<"a", " ", "b">>) = <<"Q", "4">>
    /\ ~DictHas(text_qid_by_norm_title, <<"a", "b">>)
    /\ ObjectsOf(1, "wdt:P1574") = {WD(<<"Q", "4">>)}

\* ------------------------------------------------------------------------
\* Claims about the manuscript loop
\* ------------------------------------------------------------------------

\* The subjects of the instance-of-manuscript statements made for manuscript m.
ManuscriptSubjects(m) ==
    { t[1] : t \in { x \in EmittedFor("manuscript", m) :
                       x[2] = "wdt:P31" /\ x[3] = WD(Q_MANUSCRIPT) } }

\* The identifiers manuscript record ms can go by: its own, or a synthesized
\* one ("ms_" and a token) when it has none.
IdentifiersOf(ms) ==
    IF ms.id # <<>> THEN {ms.id} ELSE { <<"m", "s", "_">> \o tok : tok \in Tokens }

\* The label text the claim prescribes for a manuscript going by mid.
PrescribedLabel(ms, mid) ==
    LET shelf == norm(ms.shelfmark)
        known == ms.libraryID # <<>> /\ DictHas(lib_name_by_id, ms.libraryID)
    IN CASE shelf # <<>> /\ known ->
                DictGet(lib_name_by_id, ms.libraryID) \o <<" ", "emdash", " ">> \o shelf
         [] shelf # <<>> /\ ~known -> shelf
         [] OTHER -> <<"M", "I", "R", "A", " ", "m", "a", "n", "u", "s", "c", "r", "i", "p", "t", " ">>
                     \o mid

\* C11: every manuscript record the loop has processed, whatever its fields,
\* has in the graph an instance-of-manuscript statement under its local
\* subject, and exactly one primary label and one preferred label, both with
\* the same text: library name, em-dash and shelf mark when the shelf mark is
\* non-blank and the owning library's name is known; else the shelf mark
\* alone when non-blank; else a placeholder that embeds the identifier.
C11_TypeAndLabel ==
    \A m \in 1..msIdx :
        \E mid \in IdentifiersOf(input.mss[m]) :
            /\ ManuscriptSubjects(m) =
                   {[ns |-> "mira", kind |-> "manuscript", id |-> safe_id(mid)]}
            /\ <<[ns |-> "mira", kind |-> "manuscript", id |-> safe_id(mid)],
                 "wdt:P31", WD(Q_MANUSCRIPT)>> \in g
            /\ ObjectsOf(m, "rdfs:label") =
                   {Literal(PrescribedLabel(input.mss[m], mid), "plain")}
            /\ ObjectsOf(m, "skos:prefLabel") = ObjectsOf(m, "rdfs:label")
            /\ \A o \in ObjectsOf(m, "rdfs:label") :
                   /\ <<[ns |-> "mira", kind |-> "manuscript", id |-> safe_id(mid)],
                        "rdfs:label", o>> \in g
                   /\ <<[ns |-> "mira", kind |-> "manuscript", id |-> safe_id(mid)],
                        "skos:prefLabel", o>> \in g

\* A manuscript with a shelf mark in a library of known name is labelled
\* with both, and one without shelf mark with the placeholder.
C11_Witness ==
    /\ pc = "done"
    /\ Len(input.mss) = 1
    /\ input.mss[1].shelfmark = <<" ", "S", " ">>
    /\ DictGet(lib_name_by_id, input.mss[1].libraryID) = <<"N">>
    /\ ObjectsOf(1, "rdfs:label") = {Literal(<<"N", " ", "emdash", " ", "S">>, "plain")}
    /\ ObjectsOf(1, "skos:prefLabel") = ObjectsOf(1, "rdfs:label")

\* A field that is absent or holds white space only.
FieldBlank(s) == norm(s) = <<>>

\* No run of three or more digits, so no year can be extracted.
NoYearIn(s) == \A i \in RunStarts(s) : RunLen(s, i) < 3

\* No digit, so neither an integer nor a decimal can be extracted.
NoNumberIn(s) == \A i \in 1..Len(s) : ~IsDigit(s[i])

\* C12: for every manuscript the loop has processed and every conditional
\* property, when the underlying field is absent, blank or yields no
\* extractable value, no statement with that property is made for the
\* manuscript; a value that is emitted is never blank; and the height and the
\* width statement each depend on their own field only.
C12_OmittedWhenBlank ==
    \A m \in 1..msIdx :
        LET ms == input.mss[m]
        IN /\ FieldBlank(ms.shelfmark) => ObjectsOf(m, "wdt:P217") = {}
           /\ FieldBlank(ms.libraryID) => ObjectsOf(m, "wdt:P195") = {}
           /\ (NoYearIn(ms.term_post) /\ NoYearIn(ms.term_ante)) =>
                  ObjectsOf(m, "wdt:P571") = {}
           /\ FieldBlank(ms.origin_place) => ObjectsOf(m, "wdt:P1071") = {}
           /\ NoNumberIn(ms.folios) => ObjectsOf(m, "wdt:P1104") = {}
           /\ NoNumberIn(ms.page_h) => ObjectsOf(m, "wdt:P2048") = {}
           /\ NoNumberIn(ms.page_w) => ObjectsOf(m, "wdt:P2049") = {}
           /\ FieldBlank(ms.href) => ObjectsOf(m, "wdt:P953") = {}
           /\ \A p \in {"wdt:P217", "wdt:P571", "wdt:P1104", "wdt:P2048",
                        "wdt:P2049", "wdt:P953"} :
                  \A o \in ObjectsOf(m, p) : ~FieldBlank(o.id)
           /\ (ObjectsOf(m, "wdt:P2048") = {}) <=> NoNumberIn(ms.page_h)
           /\ (ObjectsOf(m, "wdt:P2049") = {}) <=> NoNumberIn(ms.page_w)

\* ------------------------------------------------------------------------
\* Claims about the order of the steps of a run
\* ------------------------------------------------------------------------
AuthorityLoads == {"load_people", "load_places", "load_texts", "load_libraries"}

AddingSteps == {"emit_people", "emit_places", "emit_texts", "emit_libraries",
                "manuscripts"}

\* Every lookup table holds what its loader returns for the whole file.
FullyLoaded ==
    /\ people_qid_by_id = load_people(input.people).qid_by_id
    /\ people_label_by_id = load_people(input.people).label_by_id
    /\ place_qid_by_id = load_places(input.places).qid_by_id
    /\ place_names_by_id = load_places(input.places).names_by_id
    /\ text_qid_by_id = load_texts(input.texts).qid_by_id
    /\ text_title_by_id = load_texts(input.texts).title_by_id
    /\ text_qid_by_norm_title = load_texts(input.texts).qid_by_norm_title
    /\ lib_name_by_id = load_libraries(input.libraries).name_by_id
    /\ lib_qid_by_id = load_libraries(input.libraries).qid_by_id

\* C13: the steps of a run are strictly ordered. While an authority file is
\* still to be loaded the graph is empty; a step that adds a triple finds all
\* four tables fully loaded, leaves them alone and comes before the
\* serialization; the file is written once, by the step that ends the run,
\* and holds every triple; a run that aborts has written nothing, and one
\* that aborts on an authority file has added no triple; an ended or aborted
\* run takes no further step.
C13_StrictOrder ==
    /\ [](pc \in AuthorityLoads => (g = {} /\ emitted = {} /\ out = <<>>))
    /\ [](out # <<>> => (pc = "done" /\ out = <<g>>))
    /\ [](pc = "aborted" => out = <<>>)
    /\ [][/\ pc \notin {"done", "aborted"}
          /\ (g' # g \/ emitted' # emitted) =>
                 /\ pc \in AddingSteps
                 /\ FullyLoaded
                 /\ UNCHANGED tableVars
                 /\ out = <<>> /\ out' = <<>>
          /\ out' # out =>
                 /\ out = <<>>
                 /\ pc = "manuscripts" /\ msIdx = Len(input.mss)
                 /\ pc' = "done"
                 /\ g' = g
          /\ pc' = "aborted" =>
                 /\ out' = <<>>
                 /\ pc \in AuthorityLoads => g' = {}
                 /\ pc \in AuthorityLoads \cup {"parse_mss"}]_vars

\* The manuscript file fails to parse after the authority entities were
\* added: the run has aborted with triples in memory and nothing written.
C13_Witness ==
    /\ pc = "aborted"
    /\ g # {}
    /\ FullyLoaded
    /\ input.libraries # <<>>
    /\ out = <<>>

\* ------------------------------------------------------------------------
\* Claims about the entities a manuscript refers to
\* ------------------------------------------------------------------------

\* C14: for every manuscript the loop has processed that names an owning
\* library (an origin place) for which the authority tables hold no external
\* identifier, no collection (place-of-creation) statement is made, and
\* every such statement that is made points into the external namespace.
C14_OmittedWhenUnresolved ==
    \A m \in 1..msIdx :
        LET ms == input.mss[m]
        IN /\ (~FieldBlank(ms.libraryID) /\ DictGet(lib_qid_by_id, ms.libraryID) = None)
                  => ObjectsOf(m, "wdt:P195") = {}
           /\ (~FieldBlank(ms.origin_place) /\ DictGet(place_qid_by_id, ms.origin_place) = None)
                  => ObjectsOf(m, "wdt:P1071") = {}
           /\ \A o \in ObjectsOf(m, "wdt:P195") \cup ObjectsOf(m, "wdt:P1071") :
                  o.ns = "wd"

\* ------------------------------------------------------------------------
\* The network-metrics scripts
\* ------------------------------------------------------------------------
MaxNodeRows == 2
MaxEdgeRows == 1

\* G.add_node for every row of the node tables: a repeated id keeps its
\* place and takes the attributes of the later row.
RECURSIVE AddNodes(_, _)
AddNodes(rows, nodes) ==
    IF rows = <<>> THEN nodes
    ELSE AddNodes(Tail(rows), DictPut(nodes, Head(rows).id, Head(rows).type))

\* An endpoint missing from the node tables is added with type "unknown".
Endpoint(nodes, n) == IF DictHas(nodes, n) THEN nodes ELSE DictPut(nodes, n, "unknown")

\* G.add_edge for every row of the edge tables.
RECURSIVE AddEdges(_, _)
AddEdges(rows, acc) ==
    IF rows = <<>> THEN acc
    ELSE AddEdges(Tail(rows),
                  [nodes |-> Endpoint(Endpoint(acc.nodes, Head(rows).source), Head(rows).target),
                   edges |-> acc.edges \cup {<<Head(rows).source, Head(rows).target>>}])

\* build_graph: the nodes, the edges, and the self-loops removed.
build_graph(tables) ==
    LET built == AddEdges(tables.edges, [nodes |-> AddNodes(tables.nodes, <<>>), edges |-> {}])
    IN [nodes |-> built.nodes, edges |-> { e \in built.edges : e[1] # e[2] }]

\* {n: 0.0 for n in G.nodes()}
Zeros(nodes) == [i \in DOMAIN nodes |-> [k |-> nodes[i].k, v |-> "0.0"]]

\* The dict a converged algorithm returns: a value for every node, "nx"
\* standing for the number the library computed.
Computed(nodes) == [i \in DOMAIN nodes |-> [k |-> nodes[i].k, v |-> "nx"]]

\* The tables a script writes for the nodes of G.
MetricTables(s, nodes) ==
    {"metrics_all_nodes.csv", "metrics_place_nodes.csv"}
    \cup (IF s = "model2" THEN {"metrics_library_nodes.csv"}
          ELSE {"metrics_manuscript_nodes.csv"})
    \cup (IF s = "model1" /\ \E i \in DOMAIN nodes : nodes[i].v = "place"
          THEN {"metrics_place_nodes_percentiles.csv"} ELSE {})

\* pd.read_csv raises on a missing file, normalize_edges on missing columns.
ReadError ==
    /\ mpc = "read"
    /\ mpc' = "aborted"
    /\ UNCHANGED <<script, csv, G, pagerank, eig_cent, diverged, files, fnVars, mainVars>>

BuildGraph ==
    /\ mpc = "read"
    /\ G' = build_graph(csv)
    /\ mpc' = "pagerank"
    /\ UNCHANGED <<script, csv, pagerank, eig_cent, diverged, files, fnVars, mainVars>>

\* pagerank = nx.pagerank(G, weight="weight") returns.
PageRank ==
    /\ mpc = "pagerank"
    /\ pagerank' = Computed(G.nodes)
    /\ mpc' = "eigenvector"
    /\ UNCHANGED <<script, csv, G, eig_cent, diverged, files, fnVars, mainVars>>

\* nx.pagerank raises PowerIterationFailedConvergence when its power
\* iteration does not meet the tolerance within max_iter iterations; whether
\* it does depends on the edges and their weights. Nothing catches it.
PageRankFailedConvergence ==
    /\ mpc = "pagerank"
    /\ G.edges # {}
    /\ diverged' = diverged \cup {"PageRank"}
    /\ mpc' = "aborted"
    /\ UNCHANGED <<script, csv, G, pagerank, eig_cent, files, fnVars, mainVars>>

\* nx.eigenvector_centrality(G, weight="weight", max_iter=2000) returns.
EigenvectorCentrality ==
    /\ mpc = "eigenvector"
    /\ G.nodes # <<>>
    /\ eig_cent' = Computed(G.nodes)
    /\ mpc' = "tables"
    /\ UNCHANGED <<script, csv, G, pagerank, diverged, files, fnVars, mainVars>>

\* nx.eigenvector_centrality raises NetworkXPointlessConcept for a graph
\* without nodes; the except clause does not name it.
EigenvectorNullGraph ==
    /\ mpc = "eigenvector"
    /\ G.nodes = <<>>
    /\ mpc' = "aborted"
    /\ UNCHANGED <<script, csv, G, pagerank, eig_cent, diverged, files, fnVars, mainVars>>

\* nx.eigenvector_centrality raises PowerIterationFailedConvergence, and the
\* except clause yields zero for every node.
EigenvectorFailedConvergence ==
    /\ mpc = "eigenvector"
    /\ G.edges # {}
    /\ diverged' = diverged \cup {"EigenvectorCentrality"}
    /\ eig_cent' = Zeros(G.nodes)
    /\ mpc' = "tables"
    /\ UNCHANGED <<script, csv, G, pagerank, files, fnVars, mainVars>>

\* The DataFrame is built and the tables are written with to_csv.
WriteTables ==
    /\ mpc = "tables"
    /\ files' = MetricTables(script, G.nodes)
    /\ mpc' = "finished"
    /\ UNCHANGED <<script, csv, G, pagerank, eig_cent, diverged, fnVars, mainVars>>

NodeRows == { [id |-> i, type |-> t] : i \in {"n1", "n2"},
                                       t \in {"place", "manuscript", "library"} }

EdgeRows == { [source |-> s, target |-> t] : s, t \in {"n1", "n3"} }

InitMetrics ==
    /\ script \in {"model1", "model2"}
    /\ csv \in { [nodes |-> n, edges |-> e] :
                   n \in SeqsUpTo(NodeRows, MaxNodeRows),
                   e \in SeqsUpTo(EdgeRows, MaxEdgeRows) }
    /\ MetricsAtStart
    /\ MainNotRun
    /\ fn = "metrics"
    /\ arg = <<>> /\ arg2 = <<>>
    /\ ret = <<>> /\ ret2 = <<>>
    /\ glued = FALSE

NextMetrics ==
    \/ ReadError
    \/ BuildGraph
    \/ PageRank
    \/ PageRankFailedConvergence
    \/ EigenvectorCentrality
    \/ EigenvectorNullGraph
    \/ EigenvectorFailedConvergence
    \/ WriteTables

SpecMetrics == InitMetrics /\ [][NextMetrics]_vars

\* C15: in both scripts, whenever a centrality algorithm has failed to
\* converge the run is not aborted, the failing metric is zero for every
\* node of the graph, and the run that finishes has written its tables.
C15_NeverAborts ==
    /\ diverged # {} => mpc # "aborted"
    /\ "PageRank" \in diverged => pagerank = Zeros(G.nodes)
    /\ "EigenvectorCentrality" \in diverged => eig_cent = Zeros(G.nodes)
    /\ (diverged # {} /\ mpc = "finished") => files = MetricTables(script, G.nodes)

\* ------------------------------------------------------------------------
\* Claims about the subjects in the graph
\* ------------------------------------------------------------------------

\* The local identifier of the record a logged statement was made for.
LocalIdOf(e) ==
    IF e.kind = "manuscript" THEN input.mss[e.ref].id
    ELSE IF e.kind = "place" THEN input.places[e.ref].id
    ELSE e.ref

\* C16: two records of the same kind that carry distinct local identifiers
\* never have statements under the same locally-minted subject.
C16_InjectiveMinting ==
    \A e1, e2 \in emitted :
        (/\ e1.kind = e2.kind
         /\ LocalIdOf(e1) # <<>> /\ LocalIdOf(e2) # <<>>
         /\ LocalIdOf(e1) # LocalIdOf(e2)
         /\ e1.t[1].ns = "mira")
            => e1.t[1] # e2.t[1]

\* ------------------------------------------------------------------------
\* Claims about the inception year
\* ------------------------------------------------------------------------
FourDigits(s) == Len(s) = 4 /\ \A i \in 1..Len(s) : IsDigit(s[i])

\* C17: for every input text, year extraction returns either nothing or a
\* text of exactly four decimal digits, and the inception statement is made
\* only in the second case, with that text typed as a year.
C17_FourDigitYear ==
    fn = "extract_gYear" =>
        \/ ret = None /\ ret2 = {}
        \/ FourDigits(ret) /\ ret2 = {[ns |-> "literal", kind |-> "xsd:gYear", id |-> ret]}

\* A run of five digits yields its first four digits, and the statement.
C17_Witness ==
    /\ fn = "extract_gYear"
    /\ arg = <<"1", "2", "1", "2", "1">>
    /\ ret = <<"1", "2", "1", "2">>
    /\ ret2 # {}

\* C18: in the written graph, every subject that is the object of a
\* collection, place-of-creation or exemplar-of-work statement made for a
\* manuscript has at least one type statement.
C18_NoDanglingReference ==
    out # <<>> =>
        \A m \in 1..msIdx :
            \A p \in {"wdt:P195", "wdt:P1071", "wdt:P1574"} :
                \A o \in ObjectsOf(m, p) :
                    \E t \in out[1] : t[1] = o /\ t[2] = "rdf:type"

====
